---- MODULE Spec2Model ----
(***************************************************************************)
(* A state-machine model of novisitedlink.py: the persisted visited/       *)
(* candidate sets, the Streamlit script runs (reset, crawl), the crawl     *)
(* orchestrator crawl_and_scrape stepped page by page, and the pure        *)
(* helpers (search_urls, get_links, deduplicate, batch selection).         *)
(*                                                                         *)
(* A page URL is a number of 1..NumUrls.  A script run re-executes the     *)
(* module-level statements (lines 41-42), so every run starts by loading   *)
(* both sets from their files.                                             *)
(***************************************************************************)
EXTENDS Integers, Sequences, FiniteSets, TLC

\* ----------------------------------------------------------------- bounds
NumUrls == 3
MaxWebsites == 2
MaxPages == 2
MaxResults == 4
MaxAnchors == 2
MaxRecords == 3

\* num_websites has min_value=2 in the form (line 177)
MinWebsites == 2

URL == 1..NumUrls
\* an href that the same-domain test of get_links rejects
Offsite == 0
\* Python's None
None == "None"

VARIABLES
  fileVisited,    \* visited_links.json
  fileAll,        \* all_urls.json
  visited_links,  \* the global set visited_links
  all_urls,       \* the global set all_urls
  pc,             \* "idle" | "links" | "page" | "save": position of the running script
                  \* ("dedup", "search" and after: a function examined on its own)
  batch,          \* url_batch of the running crawl_and_scrape
  bi,             \* index of base_url in batch
  max_pages,      \* the max_pages argument
  pages,          \* pages of the current base_url
  pi,             \* index of page in pages
  results,        \* the list results of crawl_and_scrape
  deduped,        \* the list shown to the operator (deduplicate(data))
  advisory,       \* the last message main ended with
  didSearch,      \* whether the last run called search_urls
  sel,            \* the last batch selection: its pool, visited set, size and batch
  visited0,       \* visited_links when crawl_and_scrape was entered
  lastCall,       \* the scrape_page call made by the last step, if it made one:
                  \* its URL, what its GET gave, and whether it returned a record
  extracted,      \* the URLs for which scrape_page returned a record in the batch
  failed,         \* the URLs for which scrape_page returned None in the batch
  linkError,      \* whether the last step called get_links and it logged an error
  answer,         \* what ddgs.text yields to a search_urls call examined on its own
  returned        \* the list that call returns

vars == <<fileVisited, fileAll, visited_links, all_urls, pc, batch, bi,
          max_pages, pages, pi, results, deduped, advisory, didSearch, sel,
          visited0, lastCall, extracted, failed, linkError, answer,
          returned>>

\* ---------------------------------------------------------------- helpers
SeqToSet(s) == {s[i] : i \in DOMAIN s}

Min(a, b) == IF a < b THEN a ELSE b

Max(a, b) == IF a > b THEN a ELSE b

\* s[:n]
Take(s, n) == SubSeq(s, 1, Min(n, Len(s)))

\* all sequences over S of length at most n
SeqsUpTo(S, n) == UNION {[1..k -> S] : k \in 0..n}

NoDup(s) == \A i, j \in DOMAIN s : i # j => s[i] # s[j]

\* the arrangements of every set of URLs
Arrangements == {p \in SeqsUpTo(URL, NumUrls) : NoDup(p)}

\* list(S) for a set of strings.  The iteration order of a Python set depends
\* on the process's hash seed and on the order of insertion, so it is an
\* input: ord is some arrangement of a superset of S, and list(S) follows it.
ListOf(S, ord) == SelectSeq(ord, LAMBDA x : x \in S)

\* ------------------------------------------------------- persisted files
\* A file is absent, holds a JSON array, or holds what a save that was cut
\* short left of one; load_json reads the array back through set(), so only
\* the array's elements are kept here.
NoFile == [kind |-> "absent", data |-> {}]

\* The file between open(file_path, 'w') (line 38), which empties it, and the
\* end of json.dump (line 39): nothing, or the beginning of the array.
Truncated == [kind |-> "truncated", data |-> {}]

\* save_json(data_set, file_path): the content of the file afterwards
save_json(data_set) == [kind |-> "json", data |-> data_set]

\* load_json(file_path)
load_json(file) == IF file.kind = "absent" THEN {} ELSE file.data

\* json.load (line 34) raises on a file that holds no complete JSON value,
\* and load_json has no handler for it
load_raises(file) == file.kind = "truncated"

\* lines 41-42 run to their end, so that main is entered
Loaded == ~load_raises(fileVisited) /\ ~load_raises(fileAll)

\* ---------------------------------------------------------- search_urls
\* domain.endswith('.in') or 'india' in domain: the odd-numbered URLs
IsRegional(u) == u % 2 = 1

RECURSIVE search_loop(_, _, _)
search_loop(raw, i, urls) ==
  IF i > Len(raw) THEN urls
  ELSE IF IsRegional(raw[i])
       THEN search_loop(raw, i + 1, <<raw[i]>> \o urls)
       ELSE search_loop(raw, i + 1, Append(urls, raw[i]))

\* search_urls(keyword, country, max_results) on the provider's answer raw
search_urls(raw, max_results) == Take(search_loop(raw, 1, <<>>), max_results)

\* ------------------------------------------------------------ get_links
\* anchors: the hrefs of the page in document order (Offsite: rejected by
\* "domain in href"); failAt: 0 when the GET or the parse raises, i when
\* handling the i-th anchor raises, Len(anchors) + 1 when nothing raises.
\* the loop without the test of line 68
RECURSIVE links_loop_uncapped(_, _, _, _, _)
links_loop_uncapped(anchors, i, links, cap, failAt) ==
  IF i > Len(anchors) \/ i = failAt THEN links
  ELSE IF anchors[i] # Offsite
       THEN links_loop_uncapped(anchors, i + 1, links \cup {anchors[i]}, cap, failAt)
       ELSE links_loop_uncapped(anchors, i + 1, links, cap, failAt)

RECURSIVE links_loop(_, _, _, _, _)
links_loop(anchors, i, links, cap, failAt) ==
  IF i > Len(anchors) \/ i = failAt THEN links
  ELSE IF anchors[i] # Offsite
       THEN LET added == links \cup {anchors[i]}
            IN  IF Cardinality(added) >= cap THEN added
                ELSE links_loop(anchors, i + 1, added, cap, failAt)
       ELSE links_loop(anchors, i + 1, links, cap, failAt)

\* whether the except branch (lines 70-71) is taken: the GET or the parse
\* raises, or the loop comes to the anchor that raises before it breaks
get_links_raises(anchors, cap, failAt) ==
  \/ failAt = 0
  \/ /\ failAt <= Len(anchors)
     /\ Cardinality(links_loop(anchors, 1, {}, cap, failAt)) < cap

get_links(anchors, cap, failAt, ord) ==
  IF failAt = 0 THEN <<>>
  ELSE ListOf(links_loop(anchors, 1, {}, cap, failAt), ord)

\* ---------------------------------------------------------- scrape_page
\* What a page's text yields: names, orgs (recognizer order), emails, phones.
PageContents ==
  { [names |-> <<>>, orgs |-> <<>>,
     emails |-> <<"contact@firm.in">>, phones |-> <<>>],
    [names |-> <<"Jane Doe", "Ravi Rao">>, orgs |-> <<"Acme", "Bharat">>,
     emails |-> <<"jane@example.in", "ravi@example.in">>,
     phones |-> <<"9876543210">>] }

\* The GET of scrape_page: it raises (status 0), or answers with a status
\* and a body.
FetchError == [status |-> 0, body |-> [names |-> <<>>, orgs |-> <<>>,
                                       emails |-> <<>>, phones |-> <<>>]]

Responses == {FetchError} \cup [status : {200, 404}, body : PageContents]

\* the None that scrape_page returns from its except branch
NoData == [none |-> TRUE]

\* scrape_page(url) when the GET gives resp: no status check is made
scrape_page(url, resp) ==
  IF resp = FetchError THEN NoData
  ELSE [url |-> url, names |-> resp.body.names, orgs |-> resp.body.orgs,
        emails |-> resp.body.emails, phones |-> resp.body.phones]

\* ------------------------------------------- records of crawl_and_scrape
\* the test of line 108 made against the saved set, not the set in memory
is_visited_stale(page, visited) == page \in load_json(fileVisited)

\* the test of line 108 made against the set as it was when the batch began
is_visited_at_entry(page, visited) == page \in visited0

\* "if page in visited_links" (line 108)
is_visited(page, visited) == page \in visited

\* "if data" (line 113): a dict with five keys is true, None is false
has_data(data) == data # NoData

\* line 114 left out
mark_visited_forgot(visited, page) == visited

\* visited_links.add(page) (line 114)
mark_visited(visited, page) == visited \cup {page}

RECURSIVE JoinComma(_)
\* ", ".join(list) of a non-empty list
JoinComma(s) ==
  IF Len(s) = 1 THEN s[1] ELSE s[1] \o ", " \o JoinComma(Tail(s))

\* line 117 with the organization taken at the name's index
expand_org_per_name(data) ==
  [i \in 1..Max(Len(data.names), 1) |->
     [PersonName  |-> IF i <= Len(data.names) THEN data.names[i] ELSE None,
      Designation |-> None,
      Company     |-> IF i <= Len(data.orgs) THEN data.orgs[i] ELSE None,
      Emails      |-> IF data.emails # <<>> THEN JoinComma(data.emails) ELSE None,
      Phones      |-> IF data.phones # <<>> THEN JoinComma(data.phones) ELSE None,
      SourceURL   |-> data.url]]

\* the records appended for one page (lines 115-125)
expand(data) ==
  [i \in 1..Max(Len(data.names), 1) |->
     [PersonName  |-> IF i <= Len(data.names) THEN data.names[i] ELSE None,
      Designation |-> None,
      Company     |-> IF data.orgs # <<>> THEN data.orgs[1] ELSE None,
      Emails      |-> IF data.emails # <<>> THEN JoinComma(data.emails) ELSE None,
      Phones      |-> IF data.phones # <<>> THEN JoinComma(data.phones) ELSE None,
      SourceURL   |-> data.url]]

\* ---------------------------------------------------------- deduplicate
\* the key with the phones left out
signature_emails_only(item) == <<item.Emails>>

\* key = (item['Email(s)'], item['Phone(s)']) (line 134)
signature(item) == <<item.Emails, item.Phones>>

RECURSIVE dedup_loop(_, _, _, _)
dedup_loop(items, i, seen, unique) ==
  IF i > Len(items) THEN unique
  ELSE LET key == signature(items[i])
       IN  IF key \notin seen
           THEN dedup_loop(items, i + 1, seen \cup {key}, Append(unique, items[i]))
           ELSE dedup_loop(items, i + 1, seen, unique)

deduplicate(items) == dedup_loop(items, 1, {}, <<>>)

\* ------------------------------------------------------ batch selection
\* the batch taken from the pool without the visited URLs removed
select_batch_unfiltered(pool, visited, n, ord) == Take(ListOf(pool, ord), n)

\* remaining_urls = list(all_urls - visited_links) (line 190)
remaining_urls(pool, visited, ord) == ListOf(pool \ visited, ord)

\* batch = remaining_urls[:num_websites] (line 196)
select_batch(pool, visited, n, ord) == Take(remaining_urls(pool, visited, ord), n)

\* ------------------------------------------------------------ the state
\* no scrape_page call was made by the last step
NoCall == [url |-> Offsite, status |-> 0, body |-> FetchError.body, ok |-> FALSE]

NoSelection == [pool |-> {}, visited |-> {}, n |-> MinWebsites, batch |-> <<>>]

\* the locals of crawl_and_scrape while it is not running
NoCrawl ==
  /\ batch = <<>>
  /\ bi = 1
  /\ max_pages = 1
  /\ pages = <<>>
  /\ pi = 1
  /\ results = <<>>
  /\ visited0 = {}
  /\ lastCall = NoCall
  /\ extracted = {}
  /\ failed = {}
  /\ linkError = FALSE

Init ==
  /\ fileVisited = NoFile
  /\ fileAll = NoFile
  /\ visited_links = {}
  /\ all_urls = {}
  /\ pc = "idle"
  /\ deduped = <<>>
  /\ advisory = "none"
  /\ didSearch = FALSE
  /\ sel = NoSelection
  /\ NoCrawl
  /\ answer = <<>>
  /\ returned = <<>>

crawlVars == <<batch, bi, max_pages, pages, pi, results, visited0, lastCall,
               extracted, failed, linkError>>

\* In a script run the list search_urls returns is a local of main (urls), and
\* only set(urls) outlives line 186: the runs leave these two alone.
searchVars == <<answer, returned>>

\* crawl_and_scrape returns or is abandoned: its locals are gone
ClearCrawl ==
  /\ batch' = <<>>
  /\ bi' = 1
  /\ max_pages' = 1
  /\ pages' = <<>>
  /\ pi' = 1
  /\ results' = <<>>
  /\ visited0' = {}
  /\ lastCall' = NoCall
  /\ extracted' = {}
  /\ failed' = {}
  /\ linkError' = FALSE

\* ------------------------------------------------------- the script runs
\* the reset with its two save_json calls (lines 172-173) left out
Reset_NoSave ==
  /\ pc = "idle"
  /\ Loaded
  /\ visited_links' = {}
  /\ all_urls' = {}
  /\ advisory' = "reset_ok"
  /\ didSearch' = FALSE
  /\ deduped' = <<>>
  /\ UNCHANGED <<fileVisited, fileAll, pc, sel>>
  /\ UNCHANGED crawlVars
  /\ UNCHANGED searchVars

\* A run with the reset button pressed (lines 168-174); the crawl button is
\* not pressed in the same run.
Reset ==
  /\ pc = "idle"
  /\ Loaded
  /\ visited_links' = {}
  /\ all_urls' = {}
  /\ fileVisited' = save_json({})
  /\ fileAll' = save_json({})
  /\ advisory' = "reset_ok"
  /\ didSearch' = FALSE
  /\ deduped' = <<>>
  /\ UNCHANGED <<pc, sel>>
  /\ UNCHANGED crawlVars
  /\ UNCHANGED searchVars

\* A run with the crawl button pressed and no keyword (lines 221-222)
CrawlNoKeyword ==
  /\ pc = "idle"
  /\ Loaded
  /\ visited_links' = load_json(fileVisited)
  /\ all_urls' = load_json(fileAll)
  /\ advisory' = "need_keyword"
  /\ didSearch' = FALSE
  /\ deduped' = <<>>
  /\ UNCHANGED <<fileVisited, fileAll, pc, sel>>
  /\ UNCHANGED crawlVars
  /\ UNCHANGED searchVars

\* the run that searches when the backlog is empty, not when the pool is
StartCrawl_SearchWhenExhausted(raw, num_websites, mp, ord) ==
  /\ pc = "idle"
  /\ Loaded
  /\ LET v0 == load_json(fileVisited)
         a0 == load_json(fileAll)
         s0 == (a0 \ v0 = {})
         a1 == IF s0 THEN SeqToSet(search_urls(raw, MaxResults)) ELSE a0
         b  == select_batch(a1, v0, num_websites, ord)
     IN  /\ ~s0 => raw = <<>>
         /\ visited_links' = v0
         /\ all_urls' = a1
         /\ fileAll' = IF s0 THEN save_json(a1) ELSE fileAll
         /\ didSearch' = s0
         /\ sel' = [pool |-> a1, visited |-> v0, n |-> num_websites, batch |-> b]
         /\ deduped' = <<>>
         /\ IF remaining_urls(a1, v0, ord) = <<>>
            THEN /\ advisory' = "no_new_urls"
                 /\ pc' = "idle"
                 /\ UNCHANGED crawlVars
            ELSE /\ advisory' = "crawling"
                 /\ pc' = "links"
                 /\ batch' = b
                 /\ max_pages' = mp
                 /\ visited0' = v0
                 /\ UNCHANGED <<bi, pages, pi, results, lastCall, extracted, failed,
                               linkError>>
  /\ UNCHANGED fileVisited
  /\ UNCHANGED searchVars

\* A run with the crawl button pressed and a keyword (lines 181-199): the
\* load of both sets, the search when the pool is empty, the batch
\* selection, and the entry into crawl_and_scrape.  raw is the search
\* provider's answer, ord the iteration order of the set difference.
StartCrawl(raw, num_websites, mp, ord) ==
  /\ pc = "idle"
  /\ Loaded
  /\ LET v0 == load_json(fileVisited)
         a0 == load_json(fileAll)
         a1 == IF a0 = {} THEN SeqToSet(search_urls(raw, MaxResults)) ELSE a0
         b  == select_batch(a1, v0, num_websites, ord)
     IN  /\ a0 # {} => raw = <<>>
         /\ visited_links' = v0
         /\ all_urls' = a1
         /\ fileAll' = IF a0 = {} THEN save_json(a1) ELSE fileAll
         /\ didSearch' = (a0 = {})
         /\ sel' = [pool |-> a1, visited |-> v0, n |-> num_websites, batch |-> b]
         /\ deduped' = <<>>
         /\ IF remaining_urls(a1, v0, ord) = <<>>
            THEN /\ advisory' = "no_new_urls"
                 /\ pc' = "idle"
                 /\ UNCHANGED crawlVars
            ELSE /\ advisory' = "crawling"
                 /\ pc' = "links"
                 /\ batch' = b
                 /\ max_pages' = mp
                 /\ visited0' = v0
                 /\ UNCHANGED <<bi, pages, pi, results, lastCall, extracted, failed,
                               linkError>>
  /\ UNCHANGED fileVisited
  /\ UNCHANGED searchVars

\* ------------------------------------------------------ crawl_and_scrape
\* lines 103-106: the next base_url, its links, and the page list
DiscoverLinks(anchors, failAt, ord) ==
  /\ pc = "links"
  /\ bi <= Len(batch)
  /\ pages' = <<batch[bi]>> \o get_links(anchors, max_pages, failAt, ord)
  /\ pi' = 1
  /\ pc' = "page"
  /\ lastCall' = NoCall
  /\ linkError' = get_links_raises(anchors, max_pages, failAt)
  /\ UNCHANGED <<fileVisited, fileAll, visited_links, all_urls, batch, bi,
                 max_pages, results, deduped, advisory, didSearch, sel, visited0,
                 extracted, failed>>
  /\ UNCHANGED searchVars

\* lines 108-110: the page is in visited_links
SkipPage ==
  /\ pc = "page"
  /\ pi <= Len(pages)
  /\ is_visited(pages[pi], visited_links)
  /\ pi' = pi + 1
  /\ lastCall' = NoCall
  /\ linkError' = FALSE
  /\ UNCHANGED <<fileVisited, fileAll, visited_links, all_urls, pc, batch,
                 bi, max_pages, pages, results, deduped, advisory, didSearch, sel,
                 visited0, extracted, failed>>
  /\ UNCHANGED searchVars

\* the page marked visited before "if data" is tested
ScrapePage_MarkFirst(resp) ==
  /\ pc = "page"
  /\ pi <= Len(pages)
  /\ ~is_visited(pages[pi], visited_links)
  /\ LET page == pages[pi]
         data == scrape_page(page, resp)
     IN  /\ lastCall' = [url |-> page, status |-> resp.status,
                          body |-> resp.body, ok |-> has_data(data)]
         /\ visited_links' = mark_visited(visited_links, page)
         /\ IF has_data(data)
            THEN /\ results' = results \o expand(data)
                 /\ extracted' = extracted \cup {page}
                 /\ UNCHANGED failed
            ELSE /\ failed' = failed \cup {page}
                 /\ UNCHANGED <<results, extracted>>
  /\ pi' = pi + 1
  /\ linkError' = FALSE
  /\ UNCHANGED <<fileVisited, fileAll, all_urls, pc, batch, bi, max_pages,
                 pages, deduped, advisory, didSearch, sel, visited0>>
  /\ UNCHANGED searchVars

\* lines 111-126: scrape_page is called on the page; resp is what its GET gives
ScrapePage(resp) ==
  /\ pc = "page"
  /\ pi <= Len(pages)
  /\ ~is_visited(pages[pi], visited_links)
  /\ LET page == pages[pi]
         data == scrape_page(page, resp)
     IN  /\ lastCall' = [url |-> page, status |-> resp.status,
                          body |-> resp.body, ok |-> has_data(data)]
         /\ IF has_data(data)
            THEN /\ visited_links' = mark_visited(visited_links, page)
                 /\ results' = results \o expand(data)
                 /\ extracted' = extracted \cup {page}
                 /\ UNCHANGED failed
            ELSE /\ failed' = failed \cup {page}
                 /\ UNCHANGED <<visited_links, results, extracted>>
  /\ pi' = pi + 1
  /\ linkError' = FALSE
  /\ UNCHANGED <<fileVisited, fileAll, all_urls, pc, batch, bi, max_pages,
                 pages, deduped, advisory, didSearch, sel, visited0>>
  /\ UNCHANGED searchVars

\* the inner loop is over: on to the next base_url, or out of the outer loop
NextSeed ==
  /\ pc = "page"
  /\ pi > Len(pages)
  /\ bi' = bi + 1
  /\ pc' = IF bi < Len(batch) THEN "links" ELSE "save"
  /\ lastCall' = NoCall
  /\ linkError' = FALSE
  /\ UNCHANGED <<fileVisited, fileAll, visited_links, all_urls, batch,
                 max_pages, pages, pi, results, deduped, advisory, didSearch, sel,
                 visited0, extracted, failed>>
  /\ UNCHANGED searchVars

\* the end of the batch with the save made only when there are records
FinishBatch_SaveIfData ==
  /\ pc = "save"
  /\ IF results = <<>>
     THEN /\ advisory' = "no_contacts"
          /\ UNCHANGED <<deduped, fileVisited>>
     ELSE /\ advisory' = "found"
          /\ deduped' = deduplicate(results)
          /\ fileVisited' = save_json(visited_links)
  /\ pc' = "idle"
  /\ ClearCrawl
  /\ UNCHANGED <<fileAll, visited_links, all_urls, didSearch, sel>>
  /\ UNCHANGED searchVars

\* lines 127-128 and 200-205: the save, the return, and the end of main; the
\* locals of crawl_and_scrape are gone
FinishBatch ==
  /\ pc = "save"
  /\ fileVisited' = save_json(visited_links)
  /\ IF results = <<>>
     THEN /\ advisory' = "no_contacts"
          /\ UNCHANGED deduped
     ELSE /\ advisory' = "found"
          /\ deduped' = deduplicate(results)
  /\ pc' = "idle"
  /\ ClearCrawl
  /\ UNCHANGED <<fileAll, visited_links, all_urls, didSearch, sel>>
  /\ UNCHANGED searchVars

\* The run is stopped while crawl_and_scrape is in its loops (the operator
\* stops the script or the process is killed); the script then runs again
\* with no button pressed, which loads both sets from the files.
Interrupt ==
  /\ pc \in {"links", "page"}
  /\ pc' = "idle"
  /\ visited_links' = load_json(fileVisited)
  /\ all_urls' = load_json(fileAll)
  /\ advisory' = "none"
  /\ ClearCrawl
  /\ UNCHANGED <<fileVisited, fileAll, deduped, didSearch, sel>>
  /\ UNCHANGED searchVars

\* The process is stopped inside save_json at line 127, after the open has
\* emptied the file and before json.dump has written it all.  The script
\* then runs again and fails at line 41: main is not entered and no set is
\* bound again (the two sets stay what the stopped run had), and so it is
\* for every later run.
CrashInSave ==
  /\ pc = "save"
  /\ fileVisited' = Truncated
  /\ pc' = "idle"
  /\ advisory' = "load_error"
  /\ ClearCrawl
  /\ UNCHANGED <<fileAll, visited_links, all_urls, deduped, didSearch, sel>>
  /\ UNCHANGED searchVars

\* what the search provider may answer
SearchAnswers == SeqsUpTo(URL, MaxResults)

\* what the anchors of a page may be
AnchorLists == SeqsUpTo(URL \cup {Offsite}, MaxAnchors)

\* a crawl run with whatever the form and the search provider give
CrawlRun ==
  /\ pc = "idle"
  /\ \E raw \in SearchAnswers, ord \in Arrangements,
        n \in MinWebsites..MaxWebsites, mp \in 1..MaxPages :
       /\ SeqToSet(ord) = SeqToSet(raw) \cup load_json(fileAll)
       /\ StartCrawl(raw, n, mp, ord)

\* the link discovery of the next seed, on whatever its page holds
Discover ==
  /\ pc = "links"
  /\ \E anchors \in AnchorLists, ord \in Arrangements :
       /\ SeqToSet(ord) = SeqToSet(anchors) \ {Offsite}
       /\ \E failAt \in 0..(Len(anchors) + 1) :
             DiscoverLinks(anchors, failAt, ord)

\* the scrape of the next page, with whatever its GET gives
Scrape == \E resp \in Responses : ScrapePage(resp)

Next ==
  \/ Reset
  \/ CrawlNoKeyword
  \/ CrawlRun
  \/ Discover
  \/ SkipPage
  \/ Scrape
  \/ NextSeed
  \/ FinishBatch
  \/ Interrupt
  \/ CrashInSave

Spec == Init /\ [][Next]_vars

\* ------------------------------------------------- crawl run after crawl run
\* The operator starts crawl run after crawl run, with a keyword, never
\* resets, and no run is stopped before its end.  Every step of a run ends
\* (each GET has timeout=10, each loop is over a finite list), so a run that
\* has a step to take takes it.
NextProgress ==
  \/ CrawlRun
  \/ Discover
  \/ SkipPage
  \/ Scrape
  \/ NextSeed
  \/ FinishBatch

SpecProgress == Init /\ [][NextProgress]_vars /\ WF_vars(NextProgress)

\* ------------------------------------------------- deduplicate on its own
\* the records deduplicate is tried on: with or without a name, a company,
\* an email field and a phone field, from either of two pages (a company
\* without a name is left out, to keep the set small)
DedupRecords ==
  {r \in [PersonName : {None, "Jane Doe"}, Designation : {None},
          Company : {None, "Acme"}, Emails : {None, "contact@firm.in"},
          Phones : {None, "9876543210"}, SourceURL : {1, 2}] :
     r.PersonName = None => r.Company = None}

InitDedup ==
  /\ fileVisited = NoFile
  /\ fileAll = NoFile
  /\ visited_links = {}
  /\ all_urls = {}
  /\ pc = "dedup"
  /\ deduped = <<>>
  /\ advisory = "none"
  /\ didSearch = FALSE
  /\ sel = NoSelection
  /\ batch = <<>>
  /\ bi = 1
  /\ max_pages = 1
  /\ pages = <<>>
  /\ pi = 1
  /\ results \in SeqsUpTo(DedupRecords, MaxRecords)
  /\ visited0 = {}
  /\ lastCall = NoCall
  /\ extracted = {}
  /\ failed = {}
  /\ linkError = FALSE
  /\ answer = <<>>
  /\ returned = <<>>

\* deduped = deduplicate(data) (line 204)
RunDeduplicate ==
  /\ pc = "dedup"
  /\ deduped' = deduplicate(results)
  /\ pc' = "deduped"
  /\ UNCHANGED <<fileVisited, fileAll, visited_links, all_urls, advisory,
                 didSearch, sel>>
  /\ UNCHANGED crawlVars
  /\ UNCHANGED searchVars

NextDedup == RunDeduplicate

SpecDedup == InitDedup /\ [][NextDedup]_vars

\* ------------------------------------------------- search_urls on its own
InitSearch ==
  /\ fileVisited = NoFile
  /\ fileAll = NoFile
  /\ visited_links = {}
  /\ all_urls = {}
  /\ pc = "search"
  /\ deduped = <<>>
  /\ advisory = "none"
  /\ didSearch = FALSE
  /\ sel = NoSelection
  /\ NoCrawl
  /\ answer \in SearchAnswers
  /\ returned = <<>>

\* urls = search_urls(keyword, "India", max_results=100) (line 185)
RunSearch ==
  /\ pc = "search"
  /\ returned' = search_urls(answer, MaxResults)
  /\ pc' = "searched"
  /\ UNCHANGED <<fileVisited, fileAll, visited_links, all_urls, deduped,
                 advisory, didSearch, sel, answer>>
  /\ UNCHANGED crawlVars

NextSearch == RunSearch

SpecSearch == InitSearch /\ [][NextSearch]_vars

\* ---------------------------------------------------------------- claims
\* the step made a scrape_page call
Called == lastCall' # NoCall

\* C1: while crawl_and_scrape runs and when it returns, visited_links holds
\* every URL it held when the call began and every URL for which scrape_page
\* returned a record during the call.
C1_VisitationMonotone ==
  pc # "idle" => (visited0 \subseteq visited_links /\ extracted \subseteq visited_links)

\* a batch about to return that began with visited URLs, extracted a page
\* and failed on a seed
C1_Witness ==
  /\ pc = "save"
  /\ visited0 # {}
  /\ extracted # {}
  /\ \E i \in DOMAIN batch : batch[i] \notin visited_links

\* C2: scrape_page is never called on a page that is in visited_links when the
\* page is considered, and considering such a page adds no record.
C2_SkipVisited ==
  [][ /\ Called => lastCall'.url \notin visited_links
      /\ (pc = "page" /\ pi <= Len(pages) /\ pages[pi] \in visited_links /\ pc' # "idle")
           => (~Called /\ results' = results /\ pi' = pi + 1) ]_vars

\* a page was skipped that scrape_page returned a record for earlier in the
\* same batch
C2_Witness ==
  /\ pc = "page"
  /\ pi > 1
  /\ lastCall = NoCall
  /\ pages[pi - 1] \in extracted

\* C3: a scrape_page call that returns no record adds no ContactRecord,
\* leaves visited_links as it was, and leaves the orchestrator in its loops at
\* the next page of the same page list; and in its loops the orchestrator
\* always has its next step to take, so it goes on to the save.
C3_FailureSkipsPage ==
  /\ [][ (Called /\ ~lastCall'.ok) =>
           /\ results' = results
           /\ visited_links' = visited_links
           /\ pc' = "page" /\ pi' = pi + 1
           /\ <<batch, bi, pages, max_pages>>' = <<batch, bi, pages, max_pages>> ]_vars
  /\ [](pc = "links" => bi <= Len(batch))
  /\ [](pc = "page" => pi <= Len(pages) + 1 /\ bi <= Len(batch))
  /\ [][ pc = "page" /\ pc' \notin {"page", "idle"} =>
           /\ pi > Len(pages)
           /\ pc' = IF bi < Len(batch) THEN "links" ELSE "save" ]_vars

\* a batch about to be saved in which the first seed failed and a later page
\* was extracted
C3_Witness ==
  /\ pc = "save"
  /\ batch[1] \notin visited_links
  /\ extracted # {}

\* C4: a GET answered with a non-2xx status makes scrape_page return no
\* record, so no ContactRecord is added and the URL is not marked visited.
C4_Non2xxIsFailure ==
  [][ (Called /\ lastCall'.status = 404) =>
        /\ ~lastCall'.ok
        /\ results' = results
        /\ visited_links' = visited_links ]_vars

\* C5: unless the step is the reset, a URL that is in visited_links is still
\* in it after the step, whatever the step is (a run, an interrupted run and
\* the reload that follows it).
C5_NeverLosesUrl ==
  [][ advisory' # "reset_ok" => visited_links \subseteq visited_links' ]_vars

\* C6: after the reset both sets are empty in memory and both files hold the
\* empty set, and the crawl run that follows a reset calls search_urls.
C6_ResetClearsAll ==
  /\ [](advisory = "reset_ok" =>
          /\ visited_links = {} /\ all_urls = {}
          /\ fileVisited.kind = "json" /\ fileVisited.data = {}
          /\ fileAll.kind = "json" /\ fileAll.data = {})
  /\ [][ (advisory = "reset_ok" /\ advisory' \in {"crawling", "no_new_urls"})
           => didSearch' ]_vars

\* the reset was pressed after a run that had a pool and visited URLs
C6_Witness ==
  /\ advisory = "reset_ok"
  /\ sel.pool # {}
  /\ sel.visited # {}

\* C7: the selected batch holds only URLs of the pool that are not visited,
\* holds none twice, and holds exactly min(n, |pool - visited|) of them.
C7_BatchSelection ==
  LET backlog == sel.pool \ sel.visited
  IN  /\ SeqToSet(sel.batch) \subseteq backlog
      /\ NoDup(sel.batch)
      /\ Len(sel.batch) = Min(sel.n, Cardinality(backlog))

\* a pool of three URLs of which two are visited: the batch is the one left
C7_Witness ==
  /\ Cardinality(sel.pool) = NumUrls
  /\ Cardinality(sel.pool \cap sel.visited) = NumUrls - 1
  /\ Len(sel.batch) = 1
  /\ sel.n > 1

\* C8: a batch selection made with the pool, the visited set and the batch
\* size of the selection before it yields the same batch (the same URLs, in
\* whatever order).
C8_SelectionDeterministic ==
  [][ (sel'.pool = sel.pool /\ sel'.visited = sel.visited /\ sel'.n = sel.n)
        => SeqToSet(sel'.batch) = SeqToSet(sel.batch) ]_vars

\* C9: the advisory of the exhausted backlog ("No new URLs to crawl. Reset to
\* start over.") is not the one a run ends with when the search gave no
\* candidate URL and the pool is empty.
C9_ExhaustedDistinct ==
  advisory = "no_new_urls" => all_urls # {}

\* C10: deduplicate returns the records that are the first of their
\* (Email(s), Phone(s)) signature, in input order; so no two records of the
\* output share a signature and every signature of the input is in the output.
Sig(r) == <<r.Emails, r.Phones>>

FirstOfSignature(items) ==
  {i \in DOMAIN items : \A j \in 1..(i - 1) : Sig(items[j]) # Sig(items[i])}

C10_KeepsFirstPerSignature ==
  pc = "deduped" =>
    LET F == FirstOfSignature(results)
    IN  /\ Len(deduped) = Cardinality(F)
        /\ \A k \in DOMAIN deduped :
             \E i \in F : /\ Cardinality({j \in F : j < i}) = k - 1
                          /\ deduped[k] = results[i]
        /\ \A a, b \in DOMAIN deduped : a # b => Sig(deduped[a]) # Sig(deduped[b])
        /\ \A i \in DOMAIN results :
             \E k \in DOMAIN deduped : Sig(deduped[k]) = Sig(results[i])

\* three records, the third with the signature of the first and another
\* name, company and source URL: the output is the first two
C10_Witness ==
  /\ pc = "deduped"
  /\ Len(results) = 3
  /\ Sig(results[3]) = Sig(results[1])
  /\ Sig(results[2]) # Sig(results[1])
  /\ results[3].PersonName # results[1].PersonName
  /\ results[3].Company # results[1].Company
  /\ results[3].SourceURL # results[1].SourceURL
  /\ deduped = <<results[1], results[2]>>

\* C11: a scrape_page call that returns a record with k names appends exactly
\* max(k, 1) records to results, after the ones already there; the i-th of
\* them carries the i-th name (no name when k = 0), and every one of them
\* carries the first organization (none if there is none), the same emails
\* and phones fields (none exactly when the page has none), no designation,
\* and the page's URL as source.
C11_RecordExpansion ==
  [][ (Called /\ lastCall'.ok) =>
        LET d == lastCall'.body
            k == Len(d.names)
            n == IF k >= 1 THEN k ELSE 1
            old == Len(results)
        IN  /\ Len(results') = old + n
            /\ SubSeq(results', 1, old) = results
            /\ \A i \in 1..n :
                  LET r == results'[old + i]
                  IN  /\ r.PersonName = (IF k = 0 THEN None ELSE d.names[i])
                      /\ r.Company = (IF d.orgs = <<>> THEN None ELSE d.orgs[1])
                      /\ r.Emails = results'[old + 1].Emails
                      /\ r.Phones = results'[old + 1].Phones
                      /\ (r.Emails = None) = (d.emails = <<>>)
                      /\ (r.Phones = None) = (d.phones = <<>>)
                      /\ r.Designation = None
                      /\ r.SourceURL = lastCall'.url ]_vars

\* a page with two names was expanded after a page with none: three records,
\* a placeholder and one per name
C11_Witness ==
  /\ lastCall.ok
  /\ Len(lastCall.body.names) = 2
  /\ Len(results) = 3
  /\ results[1].PersonName = None
  /\ results[2].PersonName = lastCall.body.names[1]
  /\ results[3].PersonName = lastCall.body.names[2]
  /\ results[2].Company = results[3].Company

\* C12: a save leaves in the file the complete new set, and at no time does a
\* file hold anything else than the set it held before or the set being
\* saved: no step leaves a file that load_json cannot read back.
C12_AtomicSave ==
  /\ [](~load_raises(fileVisited) /\ ~load_raises(fileAll))
  /\ [][ /\ (fileVisited' = fileVisited \/ fileVisited' = save_json(visited_links'))
         /\ (fileAll' = fileAll \/ fileAll' = save_json(all_urls')) ]_vars

\* C13: the list search_urls returns is the provider's answer with the
\* regional URLs first and the others after them, each group in the order
\* in which the provider gave its URLs.
NotRegional(u) == ~IsRegional(u)

C13_StablePartition ==
  pc = "searched" =>
    returned = SelectSeq(answer, IsRegional) \o SelectSeq(answer, NotRegional)

\* C14: in a batch, scrape_page is not called on a URL for which it has
\* returned None earlier in the same batch.
C14_NoRetryInBatch ==
  [][ Called => lastCall'.url \notin failed ]_vars

\* C15: in a batch, scrape_page returns a record at most once for a URL; so
\* the records of the batch with a given Source URL are the records of one
\* page: they stand together in results and carry the same company, emails
\* and phones.
C15_OneExtractionPerUrl ==
  /\ [][ (Called /\ lastCall'.ok) => lastCall'.url \notin extracted ]_vars
  /\ [](\A i, j \in DOMAIN results :
          (i < j /\ results[i].SourceURL = results[j].SourceURL) =>
            /\ \A k \in i..j : results[k].SourceURL = results[i].SourceURL
            /\ results[i].Company = results[j].Company
            /\ results[i].Emails = results[j].Emails
            /\ results[i].Phones = results[j].Phones)

\* the first seed was extracted, and the second seed's page list, now gone
\* through, has the first seed among its links: its records are still those
\* of the one extraction
C15_Witness ==
  /\ pc = "page"
  /\ bi = 2
  /\ pi > Len(pages)
  /\ batch[1] \in extracted
  /\ \E j \in 2..Len(pages) : pages[j] = batch[1]
  /\ Cardinality({i \in DOMAIN results : results[i].SourceURL = batch[1]}) = 2

\* C16: while crawl_and_scrape is in its loops the visited file is not
\* written; the save is reached only when the last page of the last seed has
\* been gone through; and when the call returns, with or without records,
\* the file holds visited_links as it is in memory.
C16_SavedOnceAtEnd ==
  /\ [][ (pc \in {"links", "page"}) => (fileVisited' = fileVisited) ]_vars
  /\ [][ (pc # "save" /\ pc' = "save") =>
           (pc = "page" /\ bi = Len(batch) /\ pi > Len(pages)) ]_vars
  /\ [][ (pc = "save" /\ advisory' \in {"found", "no_contacts"}) =>
           /\ fileVisited' = save_json(visited_links)
           /\ visited_links' = visited_links
           /\ pc' = "idle" ]_vars
  /\ [](advisory \in {"found", "no_contacts"} =>
          (fileVisited.kind = "json" /\ load_json(fileVisited) = visited_links))

\* a batch of two seeds returned without a record, on a first use: the file
\* was written all the same
C16_Witness ==
  /\ advisory = "no_contacts"
  /\ Len(sel.batch) = 2
  /\ sel.visited = {}
  /\ fileVisited = save_json({})

\* C17: a crawl run that starts with a pool in all_urls.json calls no search
\* and leaves the pool as it is, in memory and in the file, up to its end,
\* also when every URL of the pool is visited; the pool changes only in a
\* run that starts with no pool and searches, and in the reset.
C17_PoolOnlyWhenEmpty ==
  /\ [](Loaded => all_urls = load_json(fileAll))
  /\ [][ (pc = "idle" /\ load_json(fileAll) # {}
            /\ advisory' \in {"crawling", "no_new_urls"}) =>
           (~didSearch' /\ all_urls' = all_urls /\ fileAll' = fileAll) ]_vars
  /\ [][ (pc # "idle") => (all_urls' = all_urls /\ fileAll' = fileAll) ]_vars
  /\ [][ (all_urls' # all_urls \/ fileAll' # fileAll) =>
           (advisory' = "reset_ok" \/ (load_json(fileAll) = {} /\ didSearch')) ]_vars

\* a run that began with a pool of which every URL was visited: no search,
\* the pool is still there
C17_Witness ==
  /\ advisory = "no_new_urls"
  /\ ~didSearch
  /\ all_urls # {}
  /\ all_urls \subseteq visited_links
  /\ fileAll = save_json(all_urls)

\* C18: the page list made for a seed is the seed followed by the links of
\* get_links: at most max_pages links, none of them twice, so at most
\* max_pages + 1 pages, the first of which is the seed, whether or not the
\* seed is among the links.
C18_BoundedExpansion ==
  [][ (pc = "links" /\ pc' = "page") =>
        /\ pages'[1] = batch[bi]
        /\ Len(pages') <= max_pages + 1
        /\ NoDup(Tail(pages'))
        /\ SeqToSet(Tail(pages')) \subseteq URL ]_vars

\* with a cap of one link, a seed whose one link is the seed itself: the page
\* list has the seed twice
C18_Witness ==
  /\ pc = "page"
  /\ pi = 1
  /\ max_pages = 1
  /\ pages = <<batch[bi], batch[bi]>>

\* C19: when get_links logs an error, whether the GET or the parse raised or
\* the handling of some anchor did, it returns no link, and the page list of
\* the seed is the seed alone.
C19_LinkFailureYieldsNothing ==
  [][ linkError' => pages' = <<batch[bi]>> ]_vars

\* the backlog as the next run will find it
Backlog == load_json(fileAll) \ load_json(fileVisited)

\* the run ended on line 192
Exhausted == advisory = "no_new_urls"

\* the step is the return of crawl_and_scrape and the end of the run
Returns == pc = "save" /\ pc' = "idle"

\* a batch in which no scrape_page call returned None leaves every seed of
\* the batch visited, and the backlog smaller by the size of the batch or more
C20_FailureFreeRunShrinks ==
  [][ (Returns /\ failed = {}) =>
        /\ SeqToSet(batch) \subseteq visited_links'
        /\ Cardinality(Backlog') + Len(batch) <= Cardinality(Backlog) ]_vars

\* if from some run on no scrape_page call returns None, the crawl runs come
\* to a run that ends on line 192, and such a run has an empty batch and
\* fetches no page
C20_ReachesExhaustion ==
  /\ []<>(failed # {} \/ Exhausted)
  /\ [](Exhausted => (pc = "idle" /\ sel.batch = <<>> /\ lastCall = NoCall))

\* a seed for which a scrape_page call returned None in the batch is in the
\* backlog when the run has ended
C20_FailedSeedStays ==
  [][ Returns => (SeqToSet(batch) \cap failed) \subseteq Backlog' ]_vars

\* C20: a crawl run in which every content fetch succeeds leaves every seed
\* of its batch visited and the backlog smaller by at least the batch size;
\* with no reset and no fetch failure, repeated crawl runs come to the
\* exhausted state; and a seed whose content fetch fails stays in the backlog.
C20_BacklogProgress ==
  /\ C20_FailureFreeRunShrinks
  /\ C20_ReachesExhaustion
  /\ C20_FailedSeedStays

====
